---------------------------- MODULE Spec2Model ----------------------------
(***************************************************************************)
(* A model of the annotation join engine of OpenOmics                      *)
(* (openomics/database/base.py and openomics/database/annotation.py).      *)
(*                                                                         *)
(* A DataFrame is a record                                                 *)
(*     [names |-> index level names, cols |-> column names,                *)
(*      rows  |-> <<[k |-> index values, v |-> cells], ...>>]              *)
(* with positional columns, so that column order and duplicate column      *)
(* names are representable.  Cells are strings; NA is the missing value.   *)
(* A column name is a record [b |-> text, u |-> n]: the text b followed by *)
(* n underscores, which is what str.strip("_"), col[-1] == "_" and the     *)
(* rsuffix="_" of DataFrame.join read and write.                           *)
(* The library semantics modelled are those of pandas 1.x (the release     *)
(* line the sources are written against) and of difflib.                   *)
(***************************************************************************)
EXTENDS Naturals, Sequences, FiniteSets, TLC

VARIABLES
    impl,            \* which class pair the store and its resources instantiate
    initialized,     \* hasattr(self, "annotations")
    annotations,     \* Annotatable.annotations
    joins,           \* annotate_genomics calls made on the current annotations
    last             \* the call that has just returned: arguments and outcome

vars == <<impl, initialized, annotations, joins, last>>

(***************************************************************************)
(* Bounds of the model.                                                    *)
(***************************************************************************)
MaxEntities == 2      \* longest identifier list given to initialize
MaxRows     == 2      \* most rows of a resource table
MaxJoins    == 2      \* most joins made on one annotations table
MaxAggRows  == 3      \* most rows of a table given to get_annotations directly
MaxRecords  == 3      \* most records of a FASTA file given to get_sequences

(***************************************************************************)
(* Names and cells.                                                        *)
(***************************************************************************)
N(s) == [b |-> s, u |-> 0]

NoneName == N("None")            \* Python's None as an index name
NA   == "NaN"                    \* a missing cell

GeneId       == N("gene_id")
GeneName     == N("gene_name")
TranscriptId == N("transcript_id")
GoId         == N("go_id")
Unknown      == N("zz")           \* a name no table has

\* col[-1] == "_"
EndsWithUnderscore(c) == c.u > 0
\* col.strip("_")   (no name of the model starts with an underscore)
StripUnderscores(c) == [b |-> c.b, u |-> 0]
\* name + rsuffix, rsuffix = "_"
WithSuffix(c) == [b |-> c.b, u |-> c.u + 1]

(***************************************************************************)
(* Sequences.                                                              *)
(***************************************************************************)
Range(s) == {s[i] : i \in 1..Len(s)}

Contains(s, x) == \E i \in 1..Len(s) : s[i] = x

\* list.index(x): the first position of x (0 when absent)
IndexOf(s, x) ==
    IF Contains(s, x) THEN CHOOSE i \in 1..Len(s) : s[i] = x /\ \A j \in 1..(i-1) : s[j] # x
    ELSE 0

RemoveAt(s, i) == [j \in 1..(Len(s)-1) |-> IF j < i THEN s[j] ELSE s[j+1]]

Count(s, x) == Cardinality({i \in 1..Len(s) : s[i] = x})

NoDuplicates(s) == \A i, j \in 1..Len(s) : s[i] = s[j] => i = j

RECURSIVE Flatten(_)
Flatten(ss) == IF ss = <<>> THEN <<>> ELSE Head(ss) \o Flatten(Tail(ss))

\* the elements of s in order of first appearance, each once
RECURSIVE Uniques(_)
Uniques(s) ==
    IF s = <<>> THEN <<>>
    ELSE LET init == Uniques(SubSeq(s, 1, Len(s)-1))
             x    == s[Len(s)]
         IN IF Contains(init, x) THEN init ELSE Append(init, x)

\* all sequences over S of length at most n
RECURSIVE SeqsUpTo(_, _)
SeqsUpTo(S, n) ==
    IF n = 0 THEN {<<>>} ELSE SeqsUpTo(S, n-1) \cup [1..n -> S]

\* all duplicate-free sequences over S of length at most n
DistinctSeqs(S, n) == {s \in SeqsUpTo(S, n) : NoDuplicates(s)}

(***************************************************************************)
(* Strings as character sequences: what difflib and sorting read.          *)
(***************************************************************************)
Chars(s) ==
    CASE s = "G1"  -> <<"G", "1">>
      [] s = "G2"  -> <<"G", "2">>
      [] s = "G3"  -> <<"G", "3">>
      [] s = "G1a" -> <<"G", "1", "a">>
      [] s = "A"   -> <<"A">>
      [] s = "B"   -> <<"B">>
      [] s = "T1"  -> <<"T", "1">>
      [] s = "T2"  -> <<"T", "2">>
      [] s = "GO:1" -> <<"G", "O", ":", "1">>
      [] s = "GO:2" -> <<"G", "O", ":", "2">>
      [] s = "GO:3" -> <<"G", "O", ":", "3">>
      [] OTHER     -> <<s>>

\* code point order of the characters in use
CharCode(c) ==
    CASE c = "1" -> 49 [] c = "2" -> 50 [] c = "3" -> 51
      [] c = ":" -> 58
      [] c = "A" -> 65 [] c = "B" -> 66 [] c = "G" -> 71 [] c = "O" -> 79 [] c = "T" -> 84
      [] c = "a" -> 97
      [] OTHER -> 0

\* Python's str < str
RECURSIVE SeqLess(_, _)
SeqLess(a, b) ==
    IF b = <<>> THEN FALSE
    ELSE IF a = <<>> THEN TRUE
    ELSE IF CharCode(Head(a)) # CharCode(Head(b)) THEN CharCode(Head(a)) < CharCode(Head(b))
    ELSE SeqLess(Tail(a), Tail(b))

StrLess(s, t) == SeqLess(Chars(s), Chars(t))

\* sorted(S) for a set of strings
RECURSIVE SortStrings(_)
SortStrings(S) ==
    IF S = {} THEN <<>>
    ELSE LET m == CHOOSE x \in S : \A y \in S \ {x} : StrLess(x, y)
         IN <<m>> \o SortStrings(S \ {m})

(***************************************************************************)
(* difflib.get_close_matches(word, possibilities), n = 3, cutoff = 0.6.    *)
(***************************************************************************)
Min(a, b) == IF a < b THEN a ELSE b

\* the matching blocks <<i, j, k>>: a[i..i+k-1] = b[j..j+k-1]
MatchingBlocks(a, b) ==
    {t \in (1..Len(a)) \X (1..Len(b)) \X (1..Min(Len(a), Len(b))) :
        /\ t[1] + t[3] - 1 <= Len(a)
        /\ t[2] + t[3] - 1 <= Len(b)
        /\ \A d \in 0..(t[3]-1) : a[t[1]+d] = b[t[2]+d]}

\* SequenceMatcher.find_longest_match: the longest block, the earliest in a
\* among the longest, the earliest in b among those
LongestMatch(a, b) ==
    LET B == MatchingBlocks(a, b)
    IN CHOOSE t \in B : \A o \in B :
          \/ t[3] > o[3]
          \/ t[3] = o[3] /\ t[1] < o[1]
          \/ t[3] = o[3] /\ t[1] = o[1] /\ t[2] <= o[2]

\* the number of matched characters (the sum of get_matching_blocks sizes)
RECURSIVE Matches(_, _)
Matches(a, b) ==
    IF MatchingBlocks(a, b) = {} THEN 0
    ELSE LET t == LongestMatch(a, b)
         IN t[3] + Matches(SubSeq(a, 1, t[1]-1), SubSeq(b, 1, t[2]-1))
                 + Matches(SubSeq(a, t[1]+t[3], Len(a)), SubSeq(b, t[2]+t[3], Len(b)))

\* SequenceMatcher(None, x, word).ratio() >= 0.6, i.e. 2*M/T >= 6/10
CloseEnough(x, word) ==
    LET a == Chars(x)
        b == Chars(word)
    IN 10 * Matches(a, b) >= 3 * (Len(a) + Len(b))

\* whether possibility x scores above possibility y for word: heapq.nlargest
\* orders the (score, x) pairs, so ties in score go to the greater string
ScoresAbove(x, y, word) ==
    LET a  == Chars(x)
        c  == Chars(y)
        b  == Chars(word)
        sx == Matches(a, b) * (Len(c) + Len(b))
        sy == Matches(c, b) * (Len(a) + Len(b))
    IN sx > sy \/ (sx = sy /\ StrLess(y, x))

\* get_close_matches(word, possibilities): the set of close possibilities
\* and, when not empty, its element [0]
CloseMatches(word, possibilities) == {x \in possibilities : CloseEnough(x, word)}

BestMatch(word, possibilities) ==
    LET C == CloseMatches(word, possibilities)
    IN CHOOSE x \in C : \A y \in C \ {x} : ScoresAbove(x, y, word)

(***************************************************************************)
(* pandas DataFrames.                                                      *)
(***************************************************************************)
Digits == <<"0", "1", "2", "3", "4", "5", "6", "7", "8", "9">>

\* the label of position i (0-based) of a RangeIndex; an int in pandas
Pos(i) == IF i < 10 THEN Digits[i + 1] ELSE Digits[(i \div 10) + 1] \o Digits[(i % 10) + 1]
IsInt(v) == v \in {Pos(i) : i \in 0..99}

Frame(names, cols, rows) == [names |-> names, cols |-> cols, rows |-> rows]

EmptyFrame == Frame(<<NoneName>>, <<>>, <<>>)

\* isinstance(df.index, pd.MultiIndex)
IsMultiIndex(df) == Len(df.names) > 1

\* df.index.name (None for a MultiIndex, whose level names are df.index.names)
IndexName(df) == IF IsMultiIndex(df) THEN NoneName ELSE df.names[1]

\* a set of positions, in ascending order
RECURSIVE Ascending(_)
Ascending(P) ==
    IF P = {} THEN <<>>
    ELSE LET m == CHOOSE x \in P : \A y \in P : x <= y
         IN <<m>> \o Ascending(P \ {m})

Pick(s, positions) == [i \in 1..Len(positions) |-> s[positions[i]]]

\* the values of column c (the first column of that name)
Cell(df, row, c) == row.v[IndexOf(df.cols, c)]

\* the values of index level n
Level(df, row, n) == row.k[IndexOf(df.names, n)]

\* DataFrame.reset_index(): each index level becomes a leading column, the
\* index becomes a RangeIndex; ValueError when a level's name is a column
LevelColumn(df, i) ==
    IF df.names[i] # NoneName THEN df.names[i]
    ELSE IF Len(df.names) = 1
         THEN (IF Contains(df.cols, N("index")) THEN N("level_0") ELSE N("index"))
         ELSE N("level_" \o Digits[i])

ResetIndex(df) ==
    LET levels == [i \in 1..Len(df.names) |-> LevelColumn(df, i)]
        clash  == ~NoDuplicates(levels) \/ \E i \in 1..Len(levels) : Contains(df.cols, levels[i])
    IN IF clash THEN [ok |-> FALSE, err |-> "ValueError", df |-> df]
       ELSE [ok |-> TRUE, err |-> "",
             df |-> Frame(<<NoneName>>, levels \o df.cols,
                          [i \in 1..Len(df.rows) |->
                              [k |-> <<Pos(i - 1)>>, v |-> df.rows[i].k \o df.rows[i].v]])]

\* DataFrame.set_index(keys): the key columns become the index levels and
\* leave the columns; KeyError when a key is not a column
SetIndex(df, keys) ==
    IF \E i \in 1..Len(keys) : ~Contains(df.cols, keys[i])
    THEN [ok |-> FALSE, err |-> "KeyError", df |-> df]
    ELSE LET rest == Ascending({p \in 1..Len(df.cols) : ~Contains(keys, df.cols[p])})
         IN [ok |-> TRUE, err |-> "",
             df |-> Frame(keys, Pick(df.cols, rest),
                          [i \in 1..Len(df.rows) |->
                              [k |-> [j \in 1..Len(keys) |-> Cell(df, df.rows[i], keys[j])],
                               v |-> Pick(df.rows[i].v, rest)]])]

\* a drop that leaves the table as it is
DropColumn_Kept(df, c) == df

\* DataFrame.drop(columns=c): every column of that name goes
DropColumn(df, c) ==
    LET rest == Ascending({p \in 1..Len(df.cols) : df.cols[p] # c})
    IN Frame(df.names, Pick(df.cols, rest),
             [i \in 1..Len(df.rows) |-> [k |-> df.rows[i].k, v |-> Pick(df.rows[i].v, rest)]])

\* left.join(right, on=key, rsuffix="_"): a left join of right's index against
\* left's column or index level `key`.  Every left row stays, once per
\* matching right row (NaN cells when there is none), under left's index.
\* A right column whose name left has too gets the suffix.
JoinKeyKnown(left, key) == Contains(left.cols, key) \/ Contains(left.names, key)
JoinKeyAmbiguous(left, key) == Contains(left.cols, key) /\ Contains(left.names, key)

JoinKey(left, row, key) ==
    IF Contains(left.cols, key) THEN Cell(left, row, key) ELSE Level(left, row, key)

RightName(left, c) == IF Contains(left.cols, c) THEN WithSuffix(c) ELSE c

\* a join that finds no matching right row for any left row
JoinedRows_Unmatched(left, right, row, key) ==
    <<[k |-> row.k, v |-> row.v \o [j \in 1..Len(right.cols) |-> NA]]>>

JoinedRows(left, right, row, key) ==
    LET x       == JoinKey(left, row, key)
        matches == Ascending({p \in 1..Len(right.rows) : x # NA /\ right.rows[p].k[1] = x})
    IN IF matches = <<>>
       THEN <<[k |-> row.k, v |-> row.v \o [j \in 1..Len(right.cols) |-> NA]]>>
       ELSE [m \in 1..Len(matches) |-> [k |-> row.k, v |-> row.v \o right.rows[matches[m]].v]]

LeftJoin(left, right, key) ==
    IF ~JoinKeyKnown(left, key) THEN [ok |-> FALSE, err |-> "KeyError", df |-> left]
    ELSE IF JoinKeyAmbiguous(left, key) THEN [ok |-> FALSE, err |-> "ValueError", df |-> left]
    ELSE [ok |-> TRUE, err |-> "",
          df |-> Frame(left.names,
                       left.cols \o [j \in 1..Len(right.cols) |-> RightName(left, right.cols[j])],
                       Flatten([i \in 1..Len(left.rows) |-> JoinedRows(left, right, left.rows[i], key)]))]

\* old.fillna(new): the old cell unless it is missing
FillNa(old, new) == IF old = NA THEN new ELSE old

(***************************************************************************)
(* openomics.utils.df.concat_uniques / concat_uniques_agg: the reducer of   *)
(* the "concat" aggregation.                                               *)
(***************************************************************************)
RECURSIVE JoinStrings(_, _)
JoinStrings(ss, sep) ==
    IF ss = <<>> THEN ""
    ELSE IF Len(ss) = 1 THEN ss[1]
    ELSE ss[1] \o sep \o JoinStrings(Tail(ss), sep)

\* the non-missing values, each once, in order of first appearance, joined
\* with "|"; missing when the group has no non-missing value
concat_uniques(values) ==
    LET present == SelectSeq(values, LAMBDA x : x # NA)
    IN IF present = <<>> THEN NA ELSE JoinStrings(Uniques(present), "|")

\* GroupBy.first(): the first non-missing value of the group
first_value(values) ==
    LET present == SelectSeq(values, LAMBDA x : x # NA)
    IN IF present = <<>> THEN NA ELSE present[1]

Reduce(agg, values) == IF agg = "concat" THEN concat_uniques(values) ELSE first_value(values)

(***************************************************************************)
(* Dataset.get_annotations (base.py).                                      *)
(***************************************************************************)
\* df[names]: the named columns, in that order
Select(df, names) ==
    Frame(df.names, names,
          [i \in 1..Len(df.rows) |->
              [k |-> df.rows[i].k, v |-> [j \in 1..Len(names) |-> Cell(df, df.rows[i], names[j])]]])

\* a grouping that makes one group of every row, missing keys included
GroupKeys_PerRow(df) == [i \in 1..Len(df.rows) |-> df.rows[i].k[1]]

\* df.groupby(index): the distinct non-missing keys, sorted; a missing key
\* forms no group
GroupKeys(df) == SortStrings({df.rows[i].k[1] : i \in 1..Len(df.rows)} \ {NA})

\* a group that takes in every row of the table, whatever its key
GroupRows_AllRows(df, key) == df.rows

\* the group of a key: its rows, in table order
GroupRows(df, key) == SelectSeq(df.rows, LAMBDA r : r.k[1] = key)

\* the cells of column c in the rows of a group
GroupColumn(df, rows, c) == [i \in 1..Len(rows) |-> Cell(df, rows[i], c)]

\* groupby.agg({col: reducer for col in columns}) / groupby.aggregate(agg):
\* one row per group, indexed by the group's key
AggregateGroups(df, keys, columns, agg) ==
    Frame(df.names, columns,
          [g \in 1..Len(keys) |->
              [k |-> <<keys[g]>>,
               v |-> [j \in 1..Len(columns) |->
                         Reduce(agg, GroupColumn(df, GroupRows(df, keys[g]), columns[j]))]]])

Aggregate(df, columns, agg) == AggregateGroups(df, GroupKeys(df), columns, agg)

\* the requested columns the table lacks
MissingColumns(data, columns) == {c \in Range(columns) : ~Contains(data.cols, c)}

\* a selection that leaves the caller's list as it is
PopIndex_Untouched(columns, index) == columns

\* columns.pop(columns.index(index)) when index is in columns
PopIndex(columns, index) ==
    IF Contains(columns, index) THEN RemoveAt(columns, IndexOf(columns, index)) ELSE columns

\* a failure that returns an empty table instead of raising
Raised_ReturnsEmpty(err, named, columns) ==
    [ok |-> TRUE, err |-> "", named |-> {}, columns |-> columns, df |-> EmptyFrame]

\* the outcome of a get_annotations call: the exception raised, with the
\* columns its message names, or the table returned; and the caller's
\* columns list as the call leaves it
Raised(err, named, columns) ==
    [ok |-> FALSE, err |-> err, named |-> named, columns |-> columns, df |-> EmptyFrame]

Returned(df, columns) ==
    [ok |-> TRUE, err |-> "", named |-> {}, columns |-> columns, df |-> df]

\* if index != self.data.index.name and index in self.data.columns:
\*     df = df.set_index(index)
SetIndexTo(df, data, index) ==
    IF index # IndexName(data) /\ Contains(data.cols, index)
    THEN SetIndex(df, <<index>>).df ELSE df

\* lines 183-207, with the key popped from columns: self.data[columns +
\* [index]] raises KeyError naming a key the table lacks
GroupBy(data, index, cols, agg) ==
    IF ~Contains(data.cols, index)
    THEN Raised("KeyError", {index}, cols)
    ELSE Returned(Aggregate(SetIndexTo(Select(data, cols \o <<index>>), data, index),
                            cols, agg),
                  cols)

get_annotations(data, index, columns, agg) ==
    IF MissingColumns(data, columns) # {}
    THEN Raised("Exception", MissingColumns(data, columns), columns)
    ELSE GroupBy(data, index, PopIndex(columns, index), agg)

(***************************************************************************)
(* Annotatable.annotate_genomics (base.py).  Each statement yields         *)
(* [ok, err, df]: df is self.annotations as the statement leaves it, err   *)
(* the exception it raised.                                                *)
(***************************************************************************)
Ok(df) == [ok |-> TRUE, err |-> "", df |-> df]

Failed(err, df) == [ok |-> FALSE, err |-> err, df |-> df]

\* a statement runs only when those before it raised nothing
ThenResetIndex(r) == IF r.ok THEN ResetIndex(r.df) ELSE r

ThenSetIndex(r, keys) == IF r.ok THEN SetIndex(r.df, keys) ELSE r

ThenJoin(r, right, key) == IF r.ok THEN LeftJoin(r.df, right, key) ELSE r

\* self.annotations = <value>: nothing is assigned when <value> raises
Assign(r, value) == IF value.ok THEN value ELSE Failed(value.err, r.df)

\* the values self.annotations.index iterates over
IndexValues(df) == {df.rows[i].k : i \in 1..Len(df.rows)}

\* database_df.index.map(lambda x: difflib.get_close_matches(x,
\* self.annotations.index)[0]): every key becomes its closest index value.
\* It raises on the first key without a close match (IndexError; TypeError
\* over the ints of a RangeIndex).  Against the tuples of a MultiIndex no
\* key of more than one character has a close match.
FuzzyError(database_df, ann) ==
    IF database_df.rows = <<>> THEN ""
    ELSE IF \E k \in IndexValues(ann) : Len(k) = 1 /\ IsInt(k[1]) THEN "TypeError"
    ELSE IF IsMultiIndex(ann) THEN "IndexError"
    ELSE IF \E i \in 1..Len(database_df.rows) :
               CloseMatches(database_df.rows[i].k[1], {k[1] : k \in IndexValues(ann)}) = {}
         THEN "IndexError"
    ELSE ""

FuzzyIndex(database_df, ann) ==
    Frame(database_df.names, database_df.cols,
          [i \in 1..Len(database_df.rows) |->
              [k |-> <<BestMatch(database_df.rows[i].k[1], {k[1] : k \in IndexValues(ann)})>>,
               v |-> database_df.rows[i].v]])

\* lines 284-286: database_df as the join gets it
Remapped(database_df, ann, err) ==
    IF err # "" THEN Failed(err, database_df) ELSE Ok(FuzzyIndex(database_df, ann))

FuzzyMatch(database_df, ann, fuzzy_match) ==
    IF fuzzy_match THEN Remapped(database_df, ann, FuzzyError(database_df, ann))
    ELSE Ok(database_df)

\* the cells of old_col filled from new_col where they are missing
Filled(df, old_col, new_col) ==
    Frame(df.names, df.cols,
          [i \in 1..Len(df.rows) |->
              [k |-> df.rows[i].k,
               v |-> [df.rows[i].v EXCEPT
                        ![IndexOf(df.cols, old_col)] = FillNa(@, Cell(df, df.rows[i], new_col))]]])

\* the loop over duplicate_columns: fill the old column from the suffixed
\* one, then drop the suffixed one.  It stops at the first exception and
\* leaves self.annotations as the iterations before it made it.
RECURSIVE MergeDuplicates(_, _, _)
MergeDuplicates(df, duplicate_columns, drop) ==
    IF duplicate_columns = <<>> THEN Ok(df)
    ELSE IF \/ ~Contains(df.cols, StripUnderscores(Head(duplicate_columns)))
            \/ ~Contains(df.cols, Head(duplicate_columns))
    THEN Failed("KeyError", df)
    ELSE IF Count(df.cols, Head(duplicate_columns)) > 1
    THEN Failed("TypeError", df)
    ELSE MergeDuplicates(
            IF drop
            THEN DropColumn(Filled(df, StripUnderscores(Head(duplicate_columns)),
                                   Head(duplicate_columns)),
                            Head(duplicate_columns))
            ELSE Filled(df, StripUnderscores(Head(duplicate_columns)), Head(duplicate_columns)),
            Tail(duplicate_columns), drop)

DuplicateColumns(df) == SelectSeq(df.cols, EndsWithUnderscore)

ThenMerge(r, drop) == IF r.ok THEN MergeDuplicates(r.df, DuplicateColumns(r.df), drop) ELSE r

\* lines 289-291: the join under the index
JoinOnIndex(ann, database_df, index) == LeftJoin(ann, database_df, index)

\* lines 293-296
OldIndex(ann) == IF IsMultiIndex(ann) THEN ann.names ELSE <<IndexName(ann)>>

\* lines 302-303: the join and reset_index() are one assignment
JoinAndReset(r, database_df, index) ==
    Assign(r, ThenResetIndex(ThenJoin(r, database_df, index)))

\* lines 293-304: the index rebuilt around the join
JoinOnColumn(ann, database_df, index) ==
    ThenSetIndex(JoinAndReset(ThenSetIndex(ThenResetIndex(Ok(ann)), <<index>>),
                              database_df, index),
                 OldIndex(ann))

\* lines 288-304, given database_df or the exception the fuzzy matching raised
ThenJoinOn(f, ann, index) ==
    IF ~f.ok THEN Failed(f.err, ann)
    ELSE IF index = IndexName(ann) THEN JoinOnIndex(ann, f.df, index)
    ELSE JoinOnColumn(ann, f.df, index)

\* what a call leaves: self.annotations, the exception raised ("" when it
\* returns) and the caller's columns list
Outcome(r, columns) == [annotations |-> r.df, err |-> r.err, columns |-> columns]

\* lines 284-316, given what get_annotations returned or raised
Annotate(has, ann, g, index, fuzzy_match) ==
    IF ~g.ok THEN Outcome(Failed(g.err, ann), g.columns)
    ELSE IF ~has THEN Outcome(Failed("AttributeError", ann), g.columns)
    ELSE Outcome(ThenMerge(ThenJoinOn(FuzzyMatch(g.df, ann, fuzzy_match), ann, index), TRUE),
                 g.columns)

annotate_genomics(has, ann, data, index, columns, agg, fuzzy_match) ==
    Annotate(has, ann, get_annotations(data, index, columns, agg), index, fuzzy_match)

(***************************************************************************)
(* Dataset.get_annotations and Annotatable.annotate_genomics of            *)
(* annotation.py: no aggregation mode, no fuzzy matching.                  *)
(***************************************************************************)
\* df.filter(items=names): the items that are columns, in the items' order
Filter(df, names) == Select(df, SelectSeq(names, LAMBDA c : Contains(df.cols, c)))

\* lines 67-72
Filtered(data, index, columns) ==
    IF Contains(columns, index) THEN Filter(data, columns)
    ELSE Filter(data, columns \o <<index>>)

\* lines 83-84
CheckDuplicates(aggregated, cols) ==
    IF ~NoDuplicates([i \in 1..Len(aggregated.rows) |-> aggregated.rows[i].k])
    THEN Raised("ValueError", {}, cols)
    ELSE Returned(aggregated, cols)

\* lines 80-85
annotation_GroupBy(by, index, cols) ==
    IF ~Contains(by.names, index) THEN Raised("KeyError", {index}, cols)
    ELSE IF MissingColumns(by, cols) # {} THEN Raised("KeyError", MissingColumns(by, cols), cols)
    ELSE CheckDuplicates(Aggregate(by, cols, "concat"), cols)

annotation_get_annotations(data, index, columns) ==
    annotation_GroupBy(SetIndexTo(Filtered(data, index, columns), data, index),
                       index, PopIndex(columns, index))

\* self.annotations = self.annotations.join(database.get_annotations(index,
\* columns), on=index, rsuffix="_")
JoinReturned(r, g, index) ==
    IF ~r.ok THEN r
    ELSE IF ~g.ok THEN Failed(g.err, r.df)
    ELSE LeftJoin(r.df, g.df, index)

\* lines 157-168, after reset_index() and set_index(index) gave s1;
\* get_annotations runs, and pops the key from columns, only when those
\* two have passed
annotation_JoinOnColumn(s1, g, index, old_index, columns) ==
    Outcome(ThenMerge(ThenSetIndex(ThenResetIndex(JoinReturned(s1, g, index)), old_index),
                      FALSE),
            IF s1.ok THEN g.columns ELSE columns)

annotation_Annotate(has, ann, g, index, columns) ==
    IF ~has THEN Outcome(Failed("AttributeError", ann), columns)
    ELSE IF index = IndexName(ann)
    THEN Outcome(ThenMerge(JoinReturned(Ok(ann), g, index), FALSE), g.columns)
    ELSE annotation_JoinOnColumn(ThenSetIndex(ThenResetIndex(Ok(ann)), <<index>>),
                                 g, index, <<IndexName(ann)>>, columns)

annotation_annotate_genomics(has, ann, data, index, columns) ==
    annotation_Annotate(has, ann, annotation_get_annotations(data, index, columns),
                        index, columns)

(***************************************************************************)
(* get_sequences of annotation.py.  A FASTA record is its header, already  *)
(* cut at "|" into fields, each field cut at "." into parts, and its       *)
(* sequence, a tuple of letters.  seq_dict is the list of its entries in   *)
(* insertion order; a value is one sequence or a list of sequences.        *)
(***************************************************************************)
TranscriptName == N("transcript_name")

\* record.id.split("|")[n]
Field(record, n) == record.id[n + 1]

\* field.split(".")[0]
BeforeDot(field) == <<field[1]>>

\* sequence_str.replace("U", "T")
U2T(sequence_str) ==
    [i \in 1..Len(sequence_str) |-> IF sequence_str[i] = "U" THEN "T" ELSE sequence_str[i]]

\* str(record.seq), with U replaced by T when replace_U2T is set
SequenceStr(record, replace_U2T) == IF replace_U2T THEN U2T(record.seq) ELSE record.seq

\* a dict value that is one string, and one that is a list of strings
One(sequence_str) == [list |-> FALSE, seqs |-> <<sequence_str>>]
All(seqs)         == [list |-> TRUE, seqs |-> seqs]

\* key in seq_dict
In(seq_dict, key) == \E i \in 1..Len(seq_dict) : seq_dict[i].k = key

\* seq_dict[key]
Get(seq_dict, key) == seq_dict[CHOOSE i \in 1..Len(seq_dict) : seq_dict[i].k = key].v

\* seq_dict[key] = value
Put(seq_dict, key, value) ==
    IF In(seq_dict, key)
    THEN [i \in 1..Len(seq_dict) |->
             IF seq_dict[i].k = key THEN [k |-> key, v |-> value] ELSE seq_dict[i]]
    ELSE Append(seq_dict, [k |-> key, v |-> value])

\* a selection that replaces the kept sequence by one of equal length
Keep_LastAmongTies(seq_dict, key, sequence_str, import_sequences) ==
    IF import_sequences = "shortest"
    THEN IF ~In(seq_dict, key) \/ Len(Get(seq_dict, key).seqs[1]) >= Len(sequence_str)
         THEN Put(seq_dict, key, One(sequence_str)) ELSE seq_dict
    ELSE IF import_sequences = "longest"
    THEN IF ~In(seq_dict, key) \/ Len(Get(seq_dict, key).seqs[1]) <= Len(sequence_str)
         THEN Put(seq_dict, key, One(sequence_str)) ELSE seq_dict
    ELSE IF import_sequences = "all"
    THEN IF ~In(seq_dict, key)
         THEN Put(seq_dict, key, All(<<sequence_str>>))
         ELSE Put(seq_dict, key, All(Append(Get(seq_dict, key).seqs, sequence_str)))
    ELSE Put(seq_dict, key, One(sequence_str))

\* the if / elif chain on import_sequences: keep the shortest, the longest,
\* all of them, or else the one seen last
Keep(seq_dict, key, sequence_str, import_sequences) ==
    IF import_sequences = "shortest"
    THEN IF ~In(seq_dict, key) THEN Put(seq_dict, key, One(sequence_str))
         ELSE IF Len(Get(seq_dict, key).seqs[1]) > Len(sequence_str)
              THEN Put(seq_dict, key, One(sequence_str)) ELSE seq_dict
    ELSE IF import_sequences = "longest"
    THEN IF ~In(seq_dict, key) THEN Put(seq_dict, key, One(sequence_str))
         ELSE IF Len(Get(seq_dict, key).seqs[1]) < Len(sequence_str)
              THEN Put(seq_dict, key, One(sequence_str)) ELSE seq_dict
    ELSE IF import_sequences = "all"
    THEN IF ~In(seq_dict, key)
         THEN Put(seq_dict, key, All(<<sequence_str>>))
         ELSE Put(seq_dict, key, All(Append(Get(seq_dict, key).seqs, sequence_str)))
    ELSE Put(seq_dict, key, One(sequence_str))

\* what get_sequences returns, or the exception it raises
Mapping(seq_dict) == [ok |-> TRUE, err |-> "", seq_dict |-> seq_dict]
NoMapping(err)    == [ok |-> FALSE, err |-> err, seq_dict |-> <<>>]

\* the identifier spaces GENCODE.get_sequences knows
IdentifierSpaces == {GeneId, GeneName, TranscriptId, TranscriptName}

\* "gene" in index
GeneInIndex(index) == index \in {GeneId, GeneName}

\* the key GENCODE.get_sequences reads off a record's header
GENCODE_Key(record, index) ==
    IF index = GeneId THEN BeforeDot(Field(record, 1))
    ELSE IF index = GeneName THEN Field(record, 5)
    ELSE IF index = TranscriptId THEN BeforeDot(Field(record, 0))
    ELSE Field(record, 4)

\* one pass of the loop of GENCODE.get_sequences, r being the outcome so far
GENCODE_Record(r, record, index, import_sequences, replace_U2T) ==
    IF ~r.ok THEN r
    ELSE IF index \notin IdentifierSpaces THEN NoMapping("Exception")
    ELSE Mapping(Keep(r.seq_dict, GENCODE_Key(record, index),
                      SequenceStr(record, replace_U2T),
                      IF GeneInIndex(index) THEN import_sequences ELSE "last"))

\* the loop of GENCODE.get_sequences over the first n records of the file
RECURSIVE GENCODE_Records(_, _, _, _, _)
GENCODE_Records(records, n, index, import_sequences, replace_U2T) ==
    IF n = 0 THEN Mapping(<<>>)
    ELSE GENCODE_Record(GENCODE_Records(records, n - 1, index, import_sequences, replace_U2T),
                        records[n], index, import_sequences, replace_U2T)

\* GENCODE.get_sequences(omic, index)
GENCODE_get_sequences(records, omic, index, import_sequences, replace_U2T) ==
    IF omic \notin {"GE", "LNC"} THEN NoMapping("Exception")
    ELSE GENCODE_Records(records, Len(records), index, import_sequences, replace_U2T)

\* str(record.id), the whole header
MirBase_Key(record) == record.id

\* the loop of MirBase.get_sequences over the first n records of hairpin.fa
RECURSIVE MirBase_Records(_, _, _, _)
MirBase_Records(records, n, import_sequences, replace_U2T) ==
    IF n = 0 THEN <<>>
    ELSE Keep(MirBase_Records(records, n - 1, import_sequences, replace_U2T),
              MirBase_Key(records[n]), SequenceStr(records[n], replace_U2T),
              import_sequences)

\* MirBase.get_sequences(omic, index)
MirBase_get_sequences(records, omic, index, import_sequences, replace_U2T) ==
    Mapping(MirBase_Records(records, Len(records), import_sequences, replace_U2T))

\* database.get_sequences(omic, index) of a resource of the given class
get_sequences(class, records, omic, index, import_sequences, replace_U2T) ==
    IF class = "GENCODE"
    THEN GENCODE_get_sequences(records, omic, index, import_sequences, replace_U2T)
    ELSE MirBase_get_sequences(records, omic, index, import_sequences, replace_U2T)

(***************************************************************************)
(* annotate_sequences: the mapping get_sequences returned is looked up for *)
(* each row's index value and the results become a column.                 *)
(***************************************************************************)
SEQUENCE_COL_NAME  == N("sequence")
TranscriptSequence == N("Transcript sequence")

\* the string a tuple of letters stands for
Text(sequence_str) == JoinStrings(sequence_str, "")

\* a value of the mapping as a cell: the string, or the list of strings
Value(v) ==
    IF v.list
    THEN "[" \o JoinStrings([i \in 1..Len(v.seqs) |-> Text(v.seqs[i])], ", ") \o "]"
    ELSE Text(v.seqs[1])

\* Index.map(sequences_entries) at one index value: the entry whose key is
\* x, missing when the mapping has none
Mapped(sequences_entries, x) ==
    IF In(sequences_entries, <<x>>) THEN Value(Get(sequences_entries, <<x>>)) ELSE NA

\* df[c] = values: the column c is replaced, or added as the last column
SetColumn(df, c, values) ==
    IF Contains(df.cols, c)
    THEN Frame(df.names, df.cols,
               [i \in 1..Len(df.rows) |->
                   [k |-> df.rows[i].k,
                    v |-> [j \in 1..Len(df.cols) |->
                              IF df.cols[j] = c THEN values[i] ELSE df.rows[i].v[j]]]])
    ELSE Frame(df.names, Append(df.cols, c),
               [i \in 1..Len(df.rows) |->
                   [k |-> df.rows[i].k, v |-> Append(df.rows[i].v, values[i])]])

\* self.annotations[c] = <index level>.map(sequences_entries)
SetSequences(df, c, sequences_entries, level) ==
    SetColumn(df, c, [i \in 1..Len(df.rows) |->
                        Mapped(sequences_entries, df.rows[i].k[level])])

\* base.py annotate_sequences(database, index), entries being what
\* database.get_sequences returned or raised
annotate_sequences(has, ann, entries, index) ==
    IF ~entries.ok THEN Failed(entries.err, ann)
    ELSE IF ~has THEN Failed("AttributeError", ann)
    ELSE IF IsMultiIndex(ann)
    THEN IF ~Contains(ann.names, index) THEN Failed("KeyError", ann)
         ELSE Ok(SetSequences(ann, SEQUENCE_COL_NAME, entries.seq_dict,
                              IndexOf(ann.names, index)))
    ELSE Ok(SetSequences(ann, SEQUENCE_COL_NAME, entries.seq_dict, 1))

\* annotation.py annotate_sequences(database, index, omic): self.annotations
\* is read before get_sequences is called; the tuples of a MultiIndex are
\* no keys of the mapping
annotation_annotate_sequences(has, ann, entries, index) ==
    IF ~has THEN Failed("AttributeError", ann)
    ELSE IF ~entries.ok THEN Failed(entries.err, ann)
    ELSE IF IsMultiIndex(ann)
    THEN Ok(SetColumn(ann, TranscriptSequence, [i \in 1..Len(ann.rows) |-> NA]))
    ELSE Ok(SetSequences(ann, TranscriptSequence, entries.seq_dict, 1))

(***************************************************************************)
(* annotate_diseases and annotate_interactions.  assocs is what the        *)
(* resource's get_disease_assocs returned, or the AttributeError of a      *)
(* resource that has no such method.                                       *)
(***************************************************************************)
DiseaseAssociations == N("disease_associations")

\* base.py annotate_diseases(database, index): self.annotations.index is
\* read first, then the resource is asked; the tuples of a MultiIndex are
\* no keys of the mapping
annotate_diseases(has, ann, assocs, index) ==
    IF ~has THEN Failed("AttributeError", ann)
    ELSE IF ~assocs.ok THEN Failed(assocs.err, ann)
    ELSE IF IsMultiIndex(ann)
    THEN Ok(SetColumn(ann, DiseaseAssociations, [i \in 1..Len(ann.rows) |-> NA]))
    ELSE Ok(SetSequences(ann, DiseaseAssociations, assocs.seq_dict, 1))

\* base.py annotate_interactions(database, index)
annotate_interactions(has, ann, index) == Failed("NotImplementedError", ann)

\* annotation.py annotate_diseases(database, index)
annotation_annotate_diseases(has, ann, assocs, index) == Failed("NotImplementedError", ann)

\* annotation.py annotate_interactions(database, index)
annotation_annotate_interactions(has, ann, index) == Failed("NotImplementedError", ann)

(***************************************************************************)
(* The resource's own table over a get_annotations call.  Both versions    *)
(* work on a table of their own: self.data[columns + [index]] and          *)
(* self.df.filter(items=...) are new tables, base.py's df.set_index(index) *)
(* returns another, and annotation.py's set_index(index, inplace=True)     *)
(* acts on the filtered one.                                               *)
(***************************************************************************)
\* a get_annotations that sets the index on the resource's own table
ResourceAfter_InPlace(data, index, columns) ==
    IF IndexName(data) # index /\ Contains(data.cols, index)
    THEN SetIndex(data, <<index>>).df
    ELSE data

\* self.data (self.df) once get_annotations(index, columns) has ended
ResourceAfter(data, index, columns) == data

\* an index that keeps each identifier once
initialize_annotations_Deduplicated(gene_list, names) ==
    Frame(names, <<>>, [i \in 1..Len(Uniques(gene_list)) |-> [k |-> Uniques(gene_list)[i], v |-> <<>>]])

(***************************************************************************)
(* Annotatable.initialize_annotations and Dataset.__init__.                *)
(***************************************************************************)
\* pd.DataFrame(index=gene_list) with the index named: one row per element
\* of gene_list, no column.  gene_list is a list of identifiers (names has
\* the one name `index`) or a MultiIndex carrying its level names.
initialize_annotations(gene_list, names) ==
    Frame(names, <<>>, [i \in 1..Len(gene_list) |-> [k |-> gene_list[i], v |-> <<>>]])

\* a read that hands out an empty table when there is none yet
Annotatable_get_annotations_Lenient(has, ann) == Ok(IF has THEN ann ELSE EmptyFrame)

\* Annotatable.get_annotations(): self.annotations, or the Exception "must
\* run initialize_annotations() first" when the attribute is not there
Annotatable_get_annotations(has, ann) ==
    IF has THEN Ok(ann) ELSE Failed("Exception", EmptyFrame)

\* the table load_dataframe / load_data returns: the records under a RangeIndex
Loaded(columns, records) ==
    Frame(<<NoneName>>, columns,
          [i \in 1..Len(records) |-> [k |-> <<Pos(i - 1)>>, v |-> records[i]]])

\* Dataset.__init__ of base.py: self.data = self.load_dataframe(...).reset_index()
Dataset(columns, records) == ResetIndex(Loaded(columns, records)).df

\* Dataset.__init__ of annotation.py: self.df = self.load_data(...)
annotation_Dataset(columns, records) == Loaded(columns, records)

(***************************************************************************)
(* The inputs the model draws from.                                        *)
(***************************************************************************)
Ids         == {"G1", "G2"}
Transcripts == {"T1"}

GeneLists       == SeqsUpTo({<<g>> : g \in Ids}, MaxEntities)
TranscriptLists == SeqsUpTo(Ids \X Transcripts, MaxEntities) \ {<<>>}

ResourceColumns == <<GeneId, GeneName, GoId>>

\* the records of a resource file, in file order: two annotations of one
\* gene, a second gene, a gene named by its identifier and a near-miss
\* identifier
Records ==
    << <<"G1",  "A",   "GO:1">>,
       <<"G1",  "A",   "GO:2">>,
       <<"G2",  "B",   "GO:2">>,
       <<"G1",  "G1",  "GO:1">>,
       <<"G1a", "G1a", "GO:2">> >>

\* a table holds some of the records, in file order
Tables ==
    {Pick(Records, Ascending(P)) : P \in {Q \in SUBSET (1..Len(Records)) : Cardinality(Q) <= MaxRows}}

Resource(class, t) ==
    IF class = "base" THEN Dataset(ResourceColumns, t) ELSE annotation_Dataset(ResourceColumns, t)

JoinKeys == {GeneId, GeneName}

ColumnLists == { <<GoId>>, <<GeneName>>, <<GoId, GeneId>>, <<Unknown>> }

Aggregations == {"concat", "first"}

(***************************************************************************)
(* The store as a state machine.                                           *)
(***************************************************************************)
Idle == [op |-> "none"]

Init ==
    /\ impl \in {"base", "annotation"}
    /\ initialized = FALSE
    /\ annotations = EmptyFrame
    /\ joins = 0
    /\ last = Idle

\* initialize_annotations(gene_list, index)
Initialize ==
    /\ last = Idle
    /\ \E names \in {<<GeneId>>, <<GeneId, TranscriptId>>} :
       \E gene_list \in (IF Len(names) = 1 THEN GeneLists ELSE TranscriptLists) :
          /\ annotations' = initialize_annotations(gene_list, names)
          /\ initialized' = TRUE
          /\ joins' = 0
          /\ last' = [op |-> "initialize", err |-> "", gene_list |-> gene_list, names |-> names,
                       again |-> initialized]
    /\ UNCHANGED impl

\* the store and the call record once annotate_genomics has ended with r
Called(r, data, index, columns, agg, fuzzy_match) ==
    /\ annotations' = r.annotations
    /\ last' = [op |-> "join", err |-> r.err,
                has |-> initialized, pre |-> annotations,
                data |-> data, index |-> index, columns |-> columns,
                agg |-> agg, fuzzy_match |-> fuzzy_match,
                columns_after |-> r.columns,
                data_after |-> ResourceAfter(data, index, columns)]

JoinWith(data, index, columns, agg, fuzzy_match) ==
    Called(IF impl = "base"
           THEN annotate_genomics(initialized, annotations, data, index, columns,
                                  agg, fuzzy_match)
           ELSE annotation_annotate_genomics(initialized, annotations, data, index, columns),
           data, index, columns, agg, fuzzy_match)

\* annotate_genomics(database, index, columns, agg, fuzzy_match)
Join ==
    /\ last = Idle
    /\ joins < MaxJoins
    /\ \E t \in Tables, index \in JoinKeys, columns \in ColumnLists,
          agg \in Aggregations, fuzzy_match \in BOOLEAN :
          /\ PopIndex(columns, index) # <<>>
          /\ impl = "annotation" => agg = "concat" /\ ~fuzzy_match
          /\ JoinWith(Resource(impl, t), index, columns, agg, fuzzy_match)
    /\ joins' = joins + 1
    /\ UNCHANGED <<impl, initialized>>

\* the call returns to the caller, which goes on with the store
Return ==
    /\ last # Idle
    /\ last' = Idle
    /\ UNCHANGED <<impl, initialized, annotations, joins>>

\* the call record once Annotatable.get_annotations has ended with r
Read(r) == last' = [op |-> "read", err |-> r.err, returned |-> r.ok, result |-> r.df]

\* self.get_annotations()
GetStoreAnnotations ==
    /\ last = Idle
    /\ Read(Annotatable_get_annotations(initialized, annotations))
    /\ UNCHANGED <<impl, initialized, annotations, joins>>

Next == Initialize \/ Join \/ Return

Spec == Init /\ [][Next]_vars

\* the first annotate_genomics call on a table just initialized
FirstJoin == joins = 0 /\ Join

NextFirstJoin == Initialize \/ FirstJoin \/ Return

SpecFirstJoin == Init /\ [][NextFirstJoin]_vars

(***************************************************************************)
(* Dataset.get_annotations called on its own, over a wider range of        *)
(* tables: records with a missing key, with missing values, repeated.      *)
(***************************************************************************)
AggRecords == {<<k, "A", v>> : k \in {"G1", "G2", NA}, v \in {"GO:1", "GO:2", NA}}

AggTables == SeqsUpTo(AggRecords, MaxAggRows)

AggKeys == {GeneId, GeneName, TranscriptId}

AggColumnLists ==
    { <<GoId>>, <<GoId, GeneId>>, <<GeneName, GoId>>, <<Unknown>>, <<GoId, Unknown>> }

\* database.get_annotations(index, columns, agg)
GetAnnotations ==
    /\ last = Idle
    /\ \E t \in AggTables, index \in AggKeys, columns \in AggColumnLists, agg \in Aggregations :
          /\ PopIndex(columns, index) # <<>>
          /\ impl = "annotation" => agg = "concat"
          /\ LET data == Resource(impl, t)
             IN last' = [op |-> "aggregate", data |-> data, index |-> index,
                         columns |-> columns, agg |-> agg,
                         data_after |-> ResourceAfter(data, index, columns),
                         result |-> IF impl = "base"
                                    THEN get_annotations(data, index, columns, agg)
                                    ELSE annotation_get_annotations(data, index, columns)]
    /\ UNCHANGED <<impl, initialized, annotations, joins>>

NextAgg == GetAnnotations \/ Return

SpecAgg == Init /\ [][NextAgg]_vars

(***************************************************************************)
(* get_sequences called on its own, over streams of FASTA records: two     *)
(* transcripts of one gene, with sequences of lengths 5, 8, 3 and 3.       *)
(***************************************************************************)
Headers ==
    { << <<"T1", "1">>, <<"G1", "5">>, <<"OTT1">>, <<"OTT2">>, <<"A-201">>, <<"A">> >>,
      << <<"T2", "1">>, <<"G1", "5">>, <<"OTT1">>, <<"OTT3">>, <<"A-202">>, <<"A">> >> }

Sequences ==
    { <<"A", "U", "G", "C", "A">>,
      <<"A", "U", "G", "C", "A", "U", "G", "C">>,
      <<"A", "U", "G">>,
      <<"C", "C", "G">> }

FastaRecords == {[id |-> h, seq |-> q] : h \in Headers, q \in Sequences}

Streams == SeqsUpTo(FastaRecords, MaxRecords)

SequenceIndexes == IdentifierSpaces \cup {Unknown}

ImportSequences == {"shortest", "longest", "all", "none"}

\* database.get_sequences(omic, index)
GetSequences ==
    /\ last = Idle
    /\ impl = "annotation"
    /\ \E class \in {"GENCODE", "MirBase"}, records \in Streams, omic \in {"GE", "MIR"},
          index \in SequenceIndexes, import_sequences \in ImportSequences,
          replace_U2T \in BOOLEAN :
          last' = [op |-> "sequences", class |-> class, records |-> records,
                   omic |-> omic, index |-> index,
                   import_sequences |-> import_sequences, replace_U2T |-> replace_U2T,
                   result |-> get_sequences(class, records, omic, index,
                                            import_sequences, replace_U2T)]
    /\ UNCHANGED <<impl, initialized, annotations, joins>>

NextSeq == GetSequences \/ Return

SpecSeq == Init /\ [][NextSeq]_vars

(***************************************************************************)
(* The other operations of the store: the read of its table and the        *)
(* attachments, on a table that is new, joined once or attached to.        *)
(***************************************************************************)
\* the FASTA files the attached resource is loaded from
AttachRecords == {r \in FastaRecords : Len(r.seq) <= 5 /\ r.seq[1] = "A"}

AttachStreams == SeqsUpTo(AttachRecords, 1)

AttachIndexes == {GeneId, GeneName, TranscriptId}

\* the store and the call record once an annotate_* call has ended with r
Attached(r, what, index, entries) ==
    /\ annotations' = r.df
    /\ last' = [op |-> "attach", what |-> what, err |-> r.err,
                has |-> initialized, pre |-> annotations,
                index |-> index, entries |-> entries]

AttachWith(entries, index) ==
    Attached(IF impl = "base"
             THEN annotate_sequences(initialized, annotations, entries, index)
             ELSE annotation_annotate_sequences(initialized, annotations, entries, index),
             "sequences", index, entries)

\* annotate_sequences(database, index), database being a GENCODE
AttachSequences ==
    /\ last = Idle
    /\ joins < MaxJoins
    /\ \E records \in AttachStreams, index \in AttachIndexes,
          import_sequences \in {"longest", "all"} :
          AttachWith(GENCODE_get_sequences(records, "GE", index, import_sequences, TRUE),
                     index)
    /\ joins' = joins + 1
    /\ UNCHANGED <<impl, initialized>>

\* what a resource with get_disease_assocs returns for the index, and what
\* asking a resource without the method raises
DiseaseAssocs ==
    { Mapping(<<>>),
      Mapping(<<[k |-> <<"G1">>, v |-> One(<<"D", "1">>)]>>),
      NoMapping("AttributeError") }

\* a resource with an interaction lookup, and one without
Interactions == {Mapping(<<>>), NoMapping("AttributeError")}

\* annotate_diseases(database, index)
AttachDiseases ==
    /\ last = Idle
    /\ joins < MaxJoins
    /\ \E assocs \in DiseaseAssocs, index \in {GeneId} :
          Attached(IF impl = "base"
                   THEN annotate_diseases(initialized, annotations, assocs, index)
                   ELSE annotation_annotate_diseases(initialized, annotations, assocs, index),
                   "diseases", index, assocs)
    /\ joins' = joins + 1
    /\ UNCHANGED <<impl, initialized>>

\* annotate_interactions(database, index)
AttachInteractions ==
    /\ last = Idle
    /\ joins < MaxJoins
    /\ \E lookup \in Interactions, index \in {GeneId} :
          Attached(IF impl = "base"
                   THEN annotate_interactions(initialized, annotations, index)
                   ELSE annotation_annotate_interactions(initialized, annotations, index),
                   "interactions", index, lookup)
    /\ joins' = joins + 1
    /\ UNCHANGED <<impl, initialized>>

NextStore ==
    \/ Initialize \/ FirstJoin \/ GetStoreAnnotations
    \/ AttachSequences \/ AttachDiseases \/ AttachInteractions
    \/ Return

SpecStore == Init /\ [][NextStore]_vars

(***************************************************************************)
(* Properties of annotate_genomics, read off the call `last` records.      *)
(***************************************************************************)
\* the index of a table: its rows' index values, in row order
IndexColumn(df) == [i \in 1..Len(df.rows) |-> df.rows[i].k]

\* the table database.get_annotations returned to the recorded join
Incoming ==
    IF impl = "base"
    THEN get_annotations(last.data, last.index, last.columns, last.agg).df
    ELSE annotation_get_annotations(last.data, last.index, last.columns).df

\* the cell of column c the incoming table holds for key value x (missing
\* when it has no row for x)
IncomingCell(c, x) ==
    LET rows == SelectSeq(Incoming.rows, LAMBDA r : r.k[1] = x)
    IN IF x = NA \/ rows = <<>> THEN NA ELSE Cell(Incoming, rows[1], c)

\* C1: a join, fuzzy or not, leaves annotations with exactly the rows it had:
\* none added, none removed, whatever the resource holds.
C1_JoinKeepsRowCount ==
    last.op = "join" => Len(annotations.rows) = Len(last.pre.rows)

\* C3: after a join that brings a column annotations already has, each row's
\* cell of that column is the old value where that was present and the
\* incoming value where it was missing, and the incoming duplicate column
\* (the one the join suffixed) is no longer there.
C3_CollisionMerge ==
    (last.op = "join" /\ last.err = "" /\ ~last.fuzzy_match) =>
        \A c \in Range(Incoming.cols) \cap Range(last.pre.cols) :
            /\ ~Contains(annotations.cols, WithSuffix(c))
            /\ Len(annotations.rows) = Len(last.pre.rows)
            /\ \A i \in 1..Len(annotations.rows) :
                  Cell(annotations, annotations.rows[i], c) =
                     FillNa(Cell(last.pre, last.pre.rows[i], c),
                            IncomingCell(c, JoinKey(last.pre, last.pre.rows[i], last.index)))

\* C4: a join on a key that is not the index returns with the index it
\* started with: the same level names (one or several) and the same values
\* in the same order.
C4_IndexRoundTrip ==
    (last.op = "join" /\ last.err = "" /\ last.index # IndexName(last.pre)) =>
        /\ annotations.names = last.pre.names
        /\ IndexColumn(annotations) = IndexColumn(last.pre)

\* C5: a join that raises leaves annotations exactly as it was before the call.
C5_JoinAllOrNothing ==
    (last.op = "join" /\ last.err # "") => annotations = last.pre

\* C8: no two rows of annotations share an index value; stated for the step
\* that has to keep it: a join made on a table whose index values are unique
\* returns a table whose index values are unique.
C8_IndexUnique ==
    (last.op = "join" /\ last.err = "" /\ NoDuplicates(IndexColumn(last.pre))) =>
        NoDuplicates(IndexColumn(annotations))

\* C9: a fuzzy join whose resource has a key with no close match among the
\* index values of annotations (none at all when annotations has no rows)
\* raises nothing: the join returns.
C9_FuzzyUnmatchedDropped ==
    (/\ last.op = "join" /\ last.has /\ last.fuzzy_match
     /\ last.index = IndexName(last.pre)
     /\ \E i \in 1..Len(Incoming.rows) :
           CloseMatches(Incoming.rows[i].k[1],
                        {k[1] : k \in IndexValues(last.pre)}) = {})
    => last.err = ""

\* the cells of column c in the resource rows whose key is x, in table order
ResourceValues(c, x) ==
    LET rows == SelectSeq(last.data.rows, LAMBDA r : Cell(last.data, r, last.index) = x)
    IN [i \in 1..Len(rows) |-> Cell(last.data, rows[i], c)]

\* a concat join on the index of a freshly initialized table, keys matched exactly
FirstConcatJoin ==
    /\ last.op = "join" /\ last.err = "" /\ last.has
    /\ last.agg = "concat" /\ ~last.fuzzy_match
    /\ last.pre.cols = <<>> /\ last.index = IndexName(last.pre)

\* C7: after initialize(ids, key) and a concat join on key (keys matched
\* exactly) every requested column is in annotations and holds, for each
\* entity in the order given, the concat-aggregated value of the resource rows
\* with that entity's key, and missing where the resource has no such row.
C7_InitializeThenConcatJoin ==
    FirstConcatJoin =>
        /\ IndexColumn(annotations) = IndexColumn(last.pre)
        /\ \A c \in Range(last.columns_after) :
              /\ Contains(annotations.cols, c)
              /\ \A i \in 1..Len(annotations.rows) :
                    LET values == ResourceValues(c, annotations.rows[i].k[1])
                    IN Cell(annotations, annotations.rows[i], c) =
                          IF values = <<>> THEN NA ELSE concat_uniques(values)

\* one entity received "GO:1|GO:2" from two resource rows, another nothing
C7_Witness ==
    /\ FirstConcatJoin
    /\ annotations.cols = <<GoId>>
    /\ \E i, j \in 1..Len(annotations.rows) :
          /\ annotations.rows[i].v = <<"GO:1|GO:2">>
          /\ annotations.rows[j].v = <<NA>>

(***************************************************************************)
(* Properties of get_annotations, read off the call `last` records.        *)
(***************************************************************************)
\* the key column of the table given to the recorded call, in table order
KeyColumn == [i \in 1..Len(last.data.rows) |-> Cell(last.data, last.data.rows[i], last.index)]

Aggregated == last.op = "aggregate" /\ last.result.ok

\* C2: the table get_annotations returns has no duplicate index value, and
\* exactly one row for each distinct non-missing value of the key column:
\* rows with a missing key give no row.
C2_AggregateIndex ==
    Aggregated =>
        /\ NoDuplicates(IndexColumn(last.result.df))
        /\ Len(last.result.df.rows) = Cardinality(Range(KeyColumn) \ {NA})
        /\ {k[1] : k \in Range(IndexColumn(last.result.df))} = Range(KeyColumn) \ {NA}

\* three rows, a key twice and a missing key, aggregated to one row
C2_Witness ==
    /\ Aggregated
    /\ Len(KeyColumn) = 3
    /\ ~NoDuplicates(KeyColumn)
    /\ NA \in Range(KeyColumn)
    /\ Len(last.result.df.rows) = 1

\* the non-missing cells of column c in the rows of key x, in table order
GroupValues(c, x) == SelectSeq(ResourceValues(c, x), LAMBDA v : v # NA)

\* u lists the elements of s once each, in the order they first appear in s
FirstSeenOrder(u, s) ==
    /\ NoDuplicates(u)
    /\ Range(u) = Range(s)
    /\ \A a, b \in 1..Len(u) : a < b => IndexOf(s, u[a]) < IndexOf(s, u[b])

\* C6: in concat mode the cell of a group and a value column is the group's
\* (non-missing) values, each once, in order of first appearance, joined
\* with "|".
C6_ConcatCell ==
    (Aggregated /\ last.agg = "concat") =>
        \A g \in 1..Len(last.result.df.rows), c \in Range(last.result.df.cols) :
            LET values == GroupValues(c, last.result.df.rows[g].k[1])
            IN values # <<>> =>
                  \E u \in DistinctSeqs(Range(values), Cardinality(Range(values))) :
                      /\ FirstSeenOrder(u, values)
                      /\ Cell(last.result.df, last.result.df.rows[g], c) = JoinStrings(u, "|")

\* the values GO:2, GO:1, GO:2 of one key became "GO:2|GO:1"
C6_Witness ==
    /\ Aggregated /\ last.agg = "concat"
    /\ \E g \in 1..Len(last.result.df.rows) :
          /\ GroupValues(GoId, last.result.df.rows[g].k[1]) = <<"GO:2", "GO:1", "GO:2">>
          /\ Cell(last.result.df, last.result.df.rows[g], GoId) = "GO:2|GO:1"

\* the key column and the requested columns that the table lacks
Missing ==
    {c \in Range(last.columns) \cup {last.index} : ~Contains(last.data.cols, c)}

\* C10 as stated: when the key column or a requested column is not a column
\* of the table, get_annotations raises an error naming the missing columns
\* and returns no table.
C10_NamesMissingColumns ==
    (last.op = "aggregate" /\ Missing # {}) =>
        ~last.result.ok /\ last.result.named = Missing

\* C10: when the key column or a requested column is not a column of the
\* table, get_annotations returns no table: it raises an error that names
\* at least one missing column and no column the table has.
C10_FailsOnMissingColumn ==
    (last.op = "aggregate" /\ Missing # {}) =>
        /\ ~last.result.ok
        /\ last.result.named # {}
        /\ last.result.named \subseteq Missing

\* the key and a requested column are both absent; the error names one of them
C10_Witness ==
    /\ last.op = "aggregate"
    /\ ~Contains(last.data.cols, last.index)
    /\ MissingColumns(last.data, last.columns) # {}
    /\ ~last.result.ok
    /\ last.result.named # Missing

(***************************************************************************)
(* Properties of the store over its life.                                  *)
(***************************************************************************)
\* the non-missing cells of column c in the rows of df indexed k
PresentCells(df, k, c) ==
    {Cell(df, df.rows[i], c) : i \in {j \in 1..Len(df.rows) : df.rows[j].k = k}} \ {NA}

\* table `after` has the entities of table `before`, every column of it, and
\* every non-missing cell of it
Keeps(before, after) ==
    /\ IndexValues(after) = IndexValues(before)
    /\ Range(before.cols) \subseteq Range(after.cols)
    /\ \A k \in IndexValues(before), c \in Range(before.cols) :
          PresentCells(before, k, c) \subseteq PresentCells(after, k, c)

\* C11: every join on a Ready store, whether it returns or raises, leaves
\* annotations with the set of index values it had, with every column it
\* had, and with every non-missing cell it had.
C11_JoinsOnlyAddColumns ==
    [][(last'.op = "join" /\ last'.has) => Keeps(annotations, annotations')]_vars

\* C12: reading the annotations table of the store raises the "must run
\* initialize_annotations() first" Exception before initialize has been
\* called, and returns the annotations table after it.
C12_ReadNeedsInitialize ==
    last.op = "read" =>
        IF initialized
        THEN last.returned /\ last.err = "" /\ last.result = annotations
        ELSE ~last.returned /\ last.err = "Exception"

\* a read of a store that was never initialized has raised
C12_Witness == last.op = "read" /\ ~initialized /\ last.err = "Exception"

\* C13: a join on a store that was never initialized raises the error of the
\* missing annotations table (the AttributeError on self.annotations), and
\* leaves the store as it was: not initialized and without a table.
C13_JoinNeedsInitialize ==
    (last.op = "join" /\ ~last.has) =>
        /\ last.err = "AttributeError"
        /\ ~initialized
        /\ annotations = last.pre

\* C14: initialize_annotations(gene_list, index), whatever the store held
\* before, leaves a table with one row per element of gene_list, in the order
\* of the list and with repeated identifiers kept, with no columns and with
\* index as the name of its index.
C14_InitializeOneRowPerElement ==
    last.op = "initialize" =>
        /\ initialized /\ last.err = ""
        /\ Len(annotations.rows) = Len(last.gene_list)
        /\ \A i \in 1..Len(last.gene_list) : annotations.rows[i].k = last.gene_list[i]
        /\ annotations.cols = <<>>
        /\ \A i \in 1..Len(annotations.rows) : annotations.rows[i].v = <<>>
        /\ annotations.names = last.names

\* a store that was initialized before is initialized again with one
\* identifier listed twice, and holds two rows
C14_Witness ==
    /\ last.op = "initialize" /\ last.again
    /\ last.gene_list = << <<"G1">>, <<"G1">> >>
    /\ Len(annotations.rows) = 2

(***************************************************************************)
(* Properties of get_sequences, read off the call `last` records.          *)
(***************************************************************************)
\* the identifier the recorded call reads off a record
KeyOf(record) ==
    IF last.class = "GENCODE" THEN GENCODE_Key(record, last.index) ELSE MirBase_Key(record)

\* the sequences the stream holds for an identifier, in stream order
SeenFor(key) ==
    LET of == SelectSeq(last.records, LAMBDA record : KeyOf(record) = key)
    IN [i \in 1..Len(of) |-> SequenceStr(of[i], last.replace_U2T)]

\* the first of the sequences that no other is shorter than
FirstShortest(seqs) ==
    seqs[CHOOSE i \in 1..Len(seqs) :
            /\ \A j \in 1..Len(seqs) : Len(seqs[i]) <= Len(seqs[j])
            /\ \A j \in 1..(i - 1) : Len(seqs[j]) > Len(seqs[i])]

\* the first of the sequences that no other is longer than
FirstLongest(seqs) ==
    seqs[CHOOSE i \in 1..Len(seqs) :
            /\ \A j \in 1..Len(seqs) : Len(seqs[i]) >= Len(seqs[j])
            /\ \A j \in 1..(i - 1) : Len(seqs[j]) < Len(seqs[i])]

\* what the selection policy of the recorded call makes of some sequences
Selected(seqs) ==
    IF last.import_sequences = "shortest" THEN One(FirstShortest(seqs))
    ELSE IF last.import_sequences = "longest" THEN One(FirstLongest(seqs))
    ELSE All(seqs)

\* the returned mapping has one entry per identifier of the stream, and the
\* entry of each is what the selection policy makes of its sequences
PolicyApplied ==
    /\ \A i \in 1..Len(last.records) : In(last.result.seq_dict, KeyOf(last.records[i]))
    /\ \A i \in 1..Len(last.result.seq_dict) :
          LET entry == last.result.seq_dict[i]
          IN /\ SeenFor(entry.k) # <<>>
             /\ entry.v = Selected(SeenFor(entry.k))
             /\ \A j \in 1..Len(last.result.seq_dict) :
                   last.result.seq_dict[j].k = entry.k => j = i

\* the recorded call returned a mapping under one of the three policies
PolicyCall ==
    /\ last.op = "sequences" /\ last.result.ok
    /\ last.import_sequences \in {"shortest", "longest", "all"}

\* C15 as stated: in every identifier space, get_sequences returns for each
\* identifier the first shortest sequence under "shortest", the first
\* longest under "longest", and the list of all in stream order under "all".
C15_PolicyInEverySpace == PolicyCall => PolicyApplied

\* C15, amended: MirBase in every space, and GENCODE in the spaces gene_id
\* and gene_name, return for each identifier the first shortest sequence
\* under "shortest", the first longest under "longest" and the list of all
\* in stream order under "all"; GENCODE in the spaces transcript_id and
\* transcript_name returns the sequence of the identifier's last record.
C15_PolicyInGeneSpaces ==
    PolicyCall =>
        IF last.class = "MirBase" \/ GeneInIndex(last.index)
        THEN PolicyApplied
        ELSE \A i \in 1..Len(last.result.seq_dict) :
                LET entry == last.result.seq_dict[i]
                IN /\ SeenFor(entry.k) # <<>>
                   /\ entry.v = One(SeenFor(entry.k)[Len(SeenFor(entry.k))])

\* three records of gene G1 with sequences of lengths 5, 8 and 3, in this
\* order, under "longest": the entry of G1 is the sequence of length 8
C15_Witness ==
    /\ PolicyCall /\ last.class = "GENCODE" /\ last.index = GeneId
    /\ last.import_sequences = "longest"
    /\ Len(last.records) = 3
    /\ Len(last.records[1].seq) = 5 /\ Len(last.records[2].seq) = 8
    /\ Len(last.records[3].seq) = 3
    /\ Len(last.result.seq_dict) = 1
    /\ Len(last.result.seq_dict[1].v.seqs[1]) = 8

\* C17: GENCODE.get_sequences called with an index other than gene_id,
\* gene_name, transcript_id and transcript_name raises, whatever the record
\* stream, the empty one included, and returns no mapping.
C17_UnknownSpaceRaises ==
    (last.op = "sequences" /\ last.class = "GENCODE" /\ last.index \notin IdentifierSpaces) =>
        ~last.result.ok /\ last.result.err = "Exception"

(***************************************************************************)
(* Properties of the attachments, read off the call `last` records.        *)
(***************************************************************************)
\* the index level an attachment looks up: the one named by the index
\* argument in a MultiIndex, the index itself otherwise
LookupLevel(df, index) == IF IsMultiIndex(df) THEN IndexOf(df.names, index) ELSE 1

\* after is before with column c written from the mapping and with nothing
\* else changed
OnlyColumnWritten(before, after, c, sequences_entries, level) ==
    /\ after.names = before.names
    /\ IndexColumn(after) = IndexColumn(before)
    /\ after.cols = IF Contains(before.cols, c) THEN before.cols ELSE Append(before.cols, c)
    /\ \A i \in 1..Len(before.rows), j \in 1..Len(after.cols) :
          after.rows[i].v[j] =
              IF after.cols[j] = c
              THEN Mapped(sequences_entries, before.rows[i].k[level])
              ELSE before.rows[i].v[j]

\* an annotate_sequences call on an initialized store, whose resolver
\* returned a mapping and whose index argument names the level to look up
SequencesAttached ==
    /\ last.op = "attach" /\ last.what = "sequences" /\ last.has /\ last.entries.ok
    /\ IsMultiIndex(last.pre) => Contains(last.pre.names, last.index)

\* C16: annotate_sequences on an initialized store writes the column
\* "sequence" and nothing else: each row's cell is the mapping's entry for
\* the row's index value (in a MultiIndex, for its value at the level the
\* index argument names), missing when there is none; the index, the rows
\* and the other columns stay.
C16_OnlySequenceWritten ==
    SequencesAttached =>
        /\ last.err = ""
        /\ OnlyColumnWritten(last.pre, annotations, SEQUENCE_COL_NAME,
                             last.entries.seq_dict, LookupLevel(last.pre, last.index))

(***************************************************************************)
(* Properties of the table a join merges.                                  *)
(***************************************************************************)
\* database.get_annotations returned a table to the recorded join
IncomingReturned ==
    IF impl = "base"
    THEN get_annotations(last.data, last.index, last.columns, last.agg).ok
    ELSE annotation_get_annotations(last.data, last.index, last.columns).ok

\* the table the recorded join hands to DataFrame.join: the aggregated
\* table, with its index rewritten when fuzzy_match is set
Merging ==
    IF impl = "base" THEN FuzzyMatch(Incoming, last.pre, last.fuzzy_match) ELSE Ok(Incoming)

\* C18: a join whose aggregated table comes to the merge with a repeated
\* index value raises the duplicate-index ValueError and merges nothing
\* into annotations.
C18_DuplicateIndexRaises ==
    (/\ last.op = "join" /\ last.has
     /\ IncomingReturned /\ Merging.ok
     /\ ~NoDuplicates(IndexColumn(Merging.df)))
        => last.err = "ValueError" /\ annotations = last.pre

C20_FailsOnlyWithoutCapability ==
    (last.op = "attach" /\ last.what \in {"diseases", "interactions"} /\ last.has) =>
        /\ (last.err # "") <=> ~last.entries.ok
        /\ initialized

(***************************************************************************)
(* Properties of the columns a join leaves.                                *)
(***************************************************************************)
\* C21: after a join that returned, no column name of annotations ends with
\* the suffix "_" the join marks a colliding incoming column with.
C21_NoSuffixedColumn ==
    (last.op = "join" /\ last.err = "") =>
        \A i \in 1..Len(annotations.cols) : ~EndsWithUnderscore(annotations.cols[i])

\* the recorded join made once more, with the arguments it was called
\* with, on the table it left
JoinedAgain ==
    IF impl = "base"
    THEN annotate_genomics(TRUE, annotations, last.data, last.index, last.columns,
                           last.agg, last.fuzzy_match)
    ELSE annotation_annotate_genomics(TRUE, annotations, last.data, last.index,
                                      last.columns)

\* the cells of column c in row order (of the first column of that name)
ColumnCells(df, c) == [i \in 1..Len(df.rows) |-> Cell(df, df.rows[i], c)]

\* two tables with the same index, the same set of columns and the same
\* cells in each column
SameTable(a, b) ==
    /\ a.names = b.names
    /\ IndexColumn(a) = IndexColumn(b)
    /\ Range(a.cols) = Range(b.cols)
    /\ Len(a.cols) = Len(b.cols)
    /\ \A c \in Range(a.cols) : ColumnCells(a, c) = ColumnCells(b, c)

\* a join of base.py with exact matching and the concat aggregation that
\* returned
ExactConcatJoin ==
    /\ impl = "base"
    /\ last.op = "join" /\ last.has /\ last.err = ""
    /\ ~last.fuzzy_match /\ last.agg = "concat"

WithoutKey(columns, index) == SelectSeq(columns, LAMBDA c : c # index)

\* C23: get_annotations leaves a columns list that does not hold the key as
\* it was; from a list that holds the key, a call that returns has removed
\* the key from the caller's list; and the table a call returns is indexed
\* by the key and has exactly the requested columns other than the key.
C23_KeyPoppedFromColumns ==
    last.op = "aggregate" =>
        /\ ~Contains(last.columns, last.index) => last.result.columns = last.columns
        /\ last.result.ok =>
              /\ last.result.columns = WithoutKey(last.columns, last.index)
              /\ last.result.df.names = <<last.index>>
              /\ last.result.df.cols = WithoutKey(last.columns, last.index)

\* a call whose columns list held the key and another column returned a
\* table with that one column, and the caller's list has lost the key
C23_Witness ==
    /\ last.op = "aggregate" /\ last.result.ok
    /\ Contains(last.columns, last.index) /\ Len(last.columns) = 2
    /\ Len(last.result.columns) = 1
    /\ last.result.df.cols = last.result.columns
    /\ last.result.df.rows # <<>>

=============================================================================
